---- MODULE Spec2Model ----
(***************************************************************************)
(* Model of the house-price inference server: machine_learning/main.py     *)
(* (module-level load of the artifacts, the /predict route handler) and    *)
(* machine_learning/utils.py (load_trained_model_and_scaler,               *)
(* preprocess_single_house).                                               *)
(*                                                                         *)
(* Numbers are fixed point.  Feature values are integers; scaled features  *)
(* and the model's log-price are in thousandths (milli); expm1 is computed *)
(* in units of 10^-5 and the returned price is in hundredths (cents),      *)
(* which is what round(x, 2) yields.                                       *)
(***************************************************************************)
EXTENDS Integers, Sequences, FiniteSets, TLC

VARIABLES modelFile, scalerFile, proc, model, scaler, loads, log, handled, refused

vars == <<modelFile, scalerFile, proc, model, scaler, loads, log, handled, refused>>

(* ------------------------------ bounds -------------------------------- *)

\* requests a client sends in one run
MaxRequests == 2
\* numeric feature values in a request body are 1..MaxVal
MaxVal == 2

(* --------------------------- JSON request bodies ----------------------- *)

Num(n) == <<"num", n>>
Str == <<"str", 0>>

IsNum(v) == v[1] = "num"

\* the scaler was fitted on these columns; "owner" is a field it never saw
FeatureNames == {"sqft", "bedrooms"}
ExtraNames == {"owner"}
FieldNames == FeatureNames \cup ExtraNames

\* the order in which a request body lists its keys
KeyOrder == <<"owner", "bedrooms", "sqft">>

FeatureValues == {Num(n) : n \in 1..MaxVal} \cup {Str}
ExtraValues == {Str}

ValuesOf(name) == IF name \in FeatureNames THEN FeatureValues ELSE ExtraValues

ObjectFields ==
  UNION {{f \in [S -> FeatureValues \cup ExtraValues] :
             \A k \in S : f[k] \in ValuesOf(k)} : S \in SUBSET FieldNames}

\* what a client can POST: a JSON object, a JSON value that is no object,
\* or text that is no JSON at all
Bodies ==
  {[kind |-> "object", fields |-> f] : f \in ObjectFields}
    \cup {[kind |-> "number", fields |-> <<>>], [kind |-> "malformed", fields |-> <<>>]}

(* ------------------------------ artifacts ------------------------------ *)

\* a file that is not on disk
NoModelFile == [present |-> FALSE, input_dim |-> 0, weights |-> <<>>, bias |-> 0]
NoScalerFile == [present |-> FALSE, feature_names_in_ |-> <<>>, mean_ |-> <<>>, scale_ |-> <<>>]

\* scaler.save: a fitted scaler, x |-> (x - mean_) / scale_ per column
ScalerFiles ==
  {[present |-> TRUE, feature_names_in_ |-> <<"sqft", "bedrooms">>,
    mean_ |-> <<1, 1>>, scale_ |-> <<1, 2>>]}

\* house_price_model.keras: a regression network, here its affine read-out,
\* weights and bias in thousandths.  The last one was built for three inputs.
ModelFiles ==
  {[present |-> TRUE, input_dim |-> 2, weights |-> <<500, 500>>, bias |-> 750],
   [present |-> TRUE, input_dim |-> 2, weights |-> <<-1000, 2000>>, bias |-> 4],
   [present |-> TRUE, input_dim |-> 3, weights |-> <<500, 500, 500>>, bias |-> 0]}

(* ------------------------------ helpers -------------------------------- *)

Range(s) == {s[i] : i \in DOMAIN s}

\* all orders in which a set can be iterated
Perms(S) == {s \in [1..Cardinality(S) -> S] : Range(s) = S}

RECURSIVE Dot(_, _, _)
Dot(w, x, n) == IF n = 0 THEN 0 ELSE w[n] * x[n] + Dot(w, x, n - 1)

\* division that truncates towards zero
TruncDiv(a, b) == IF a >= 0 THEN a \div b ELSE -((-a) \div b)

(* ------------------------- pandas: the data frame ---------------------- *)

NoFrame == [columns |-> <<>>, row |-> <<>>]

\* pd.DataFrame([house_data]): one row; a dict gives one column per key, in
\* key order; any other JSON value gives the single column "0"
DataFrame(house_data) ==
  IF house_data.kind = "object"
    THEN [columns |-> SelectSeq(KeyOrder, LAMBDA k : k \in DOMAIN house_data.fields),
          row |-> house_data.fields]
    ELSE [columns |-> <<"0">>, row |-> ("0" :> Num(1))]

\* mutant: the default written for a missing feature is 1
SetColumn_DefaultOne(df, feature) ==
  [columns |-> IF feature \in Range(df.columns) THEN df.columns
               ELSE Append(df.columns, feature),
   row |-> [k \in DOMAIN df.row \cup {feature} |->
              IF k = feature THEN Num(1) ELSE df.row[k]]]

\* house_df[feature] = 0: overwrite the column, or append it on the right
SetColumn(df, feature) ==
  [columns |-> IF feature \in Range(df.columns) THEN df.columns
               ELSE Append(df.columns, feature),
   row |-> [k \in DOMAIN df.row \cup {feature} |->
              IF k = feature THEN Num(0) ELSE df.row[k]]]

\* for feature in missing_features: house_df[feature] = 0
RECURSIVE FillMissing(_, _)
FillMissing(df, order) ==
  IF order = <<>> THEN df
  ELSE FillMissing(SetColumn(df, Head(order)), Tail(order))

\* house_df[names]: the named columns in the named order; KeyError when one
\* of them is not a column
HasColumns(df, names) == Range(names) \subseteq Range(df.columns)

\* mutant: the frame is handed on as it is, extra columns and all
SelectColumns_KeepsAll(df, names) == df

SelectColumns(df, names) ==
  [columns |-> names, row |-> [k \in Range(names) |-> df.row[k]]]

(* ------------------------ scikit-learn and keras ----------------------- *)

\* scaler.transform(X): X must carry the fitted column names in the fitted
\* order and numbers only; the result is in thousandths
TransformRaises(sc, df) ==
  IF df.columns # sc.feature_names_in_ THEN "feature names mismatch"
  ELSE IF \E k \in Range(df.columns) : ~IsNum(df.row[k])
    THEN "could not convert string to float"
  ELSE ""

Transform(sc, df) ==
  [i \in 1..Len(df.columns) |->
     TruncDiv((df.row[df.columns[i]][2] - sc.mean_[i]) * 1000, sc.scale_[i])]

\* model.predict(X): X must have the width the network was built for
PredictRaises(m, x) == IF Len(x) # m.input_dim THEN "incompatible input shape" ELSE ""

Predict(m, x) == m.bias + TruncDiv(Dot(m.weights, x, Len(x)), 1000)

(* ------------------------------- numpy --------------------------------- *)

\* sum of the series y + y^2/2! + y^3/3! + ... from the n-th term on;
\* term in units of 10^-5, y in thousandths
RECURSIVE Series(_, _, _)
Series(term, y, n) ==
  IF term = 0 THEN 0
  ELSE term + Series(TruncDiv(term * y, 1000 * (n + 1)), y, n + 1)

\* mutant: np.exp in place of np.expm1
expm1_AsExp(y) == 100000 + Series(y * 100, y, 1)

\* np.expm1(y) = e^y - 1, in units of 10^-5
expm1(y) == Series(y * 100, y, 1)

\* round(x, 2): x in units of 10^-5 to hundredths, ties to even
Round2(x) ==
  LET q == x \div 1000
      r == x - q * 1000
  IN
  IF r * 2 > 1000 THEN q + 1
  ELSE IF r * 2 < 1000 THEN q
  ELSE IF q % 2 = 0 THEN q ELSE q + 1

(* --------------------------- utils.py ---------------------------------- *)

\* mutant: a failed load is swallowed and the globals are left empty
load_IgnoresMissingFile(mf, sf) == [exc |-> "", model |-> mf, scaler |-> sf]

\* load_trained_model_and_scaler(): load_model and joblib.load raise when
\* their file is not there; otherwise the pair (model, scaler) is returned
load_trained_model_and_scaler(mf, sf) ==
  [exc |-> IF ~mf.present THEN "house_price_model.keras not found"
           ELSE IF ~sf.present THEN "scaler.save not found"
           ELSE "",
   model |-> IF mf.present /\ sf.present THEN mf ELSE NoModelFile,
   scaler |-> IF mf.present /\ sf.present THEN sf ELSE NoScalerFile]

\* missing_features = set(scaler.feature_names_in_) - set(house_df.columns)
missing_features(house_data, sc) ==
  Range(sc.feature_names_in_) \ Range(DataFrame(house_data).columns)

\* mutant: scaler.fit_transform in place of scaler.transform; the scaler is
\* fitted again on the one row, which then scales to zero
preprocess_FitTransform(house_data, sc, order) ==
  LET filled == FillMissing(DataFrame(house_data), order)
      found == HasColumns(filled, sc.feature_names_in_)
      house_df == IF found THEN SelectColumns(filled, sc.feature_names_in_) ELSE NoFrame
      exc == IF found THEN TransformRaises(sc, house_df) ELSE "KeyError"
      fitted == [sc EXCEPT !.mean_ = [i \in DOMAIN sc.mean_ |->
                                        house_df.row[house_df.columns[i]][2]],
                           !.scale_ = [i \in DOMAIN sc.scale_ |-> 1]]
  IN  [house_df |-> house_df,
       steps |-> IF found THEN <<"align", "scale">> ELSE <<"align">>,
       exc |-> exc,
       value |-> IF exc = "" THEN Transform(fitted, house_df) ELSE <<>>,
       scaler |-> IF exc = "" THEN fitted ELSE sc]

\* mutant: the scaler keeps learning, scaler.partial_fit(house_df) after the
\* transform moves its mean to the row just seen
preprocess_PartialFit(house_data, sc, order) ==
  LET filled == FillMissing(DataFrame(house_data), order)
      found == HasColumns(filled, sc.feature_names_in_)
      house_df == IF found THEN SelectColumns(filled, sc.feature_names_in_) ELSE NoFrame
      exc == IF found THEN TransformRaises(sc, house_df) ELSE "KeyError"
      fitted == [sc EXCEPT !.mean_ = [i \in DOMAIN sc.mean_ |->
                                        house_df.row[house_df.columns[i]][2]]]
  IN  [house_df |-> house_df,
       steps |-> IF found THEN <<"align", "scale">> ELSE <<"align">>,
       exc |-> exc,
       value |-> IF exc = "" THEN Transform(sc, house_df) ELSE <<>>,
       scaler |-> IF exc = "" THEN fitted ELSE sc]

\* preprocess_single_house(house_data, scaler); order is the order in which
\* the loop iterates the set missing_features.  The result carries the frame
\* handed to scaler.transform, what transform returned or raised, and the
\* scaler object as the call leaves it.
preprocess_single_house(house_data, sc, order) ==
  LET filled == FillMissing(DataFrame(house_data), order)
      found == HasColumns(filled, sc.feature_names_in_)
      house_df == IF found THEN SelectColumns(filled, sc.feature_names_in_) ELSE NoFrame
      exc == IF found THEN TransformRaises(sc, house_df) ELSE "KeyError"
  IN  [house_df |-> house_df,
       steps |-> IF found THEN <<"align", "scale">> ELSE <<"align">>,
       exc |-> exc,
       value |-> IF exc = "" THEN Transform(sc, house_df) ELSE <<>>,
       scaler |-> sc]

(* ---------------------------- main.py ---------------------------------- *)

\* return jsonify({"price": round(float(predicted_price[0][0]), 2)})
PriceResponse(predicted_price) ==
  [status |-> 200, ctype |-> "json", key |-> "price",
   price |-> Round2(predicted_price), error |-> ""]

\* mutant: the error is reported as a server error
ErrorResponse_Status500(e) ==
  [status |-> 500, ctype |-> "json", key |-> "error", price |-> 0, error |-> e]

\* except Exception as e: return jsonify({"error": str(e)}), 400
ErrorResponse(e) ==
  [status |-> 400, ctype |-> "json", key |-> "error", price |-> 0, error |-> e]

\* request.json raises BadRequest on a body that is no JSON; raised outside
\* the try block, it is answered by the framework's own error page
BadRequestPage ==
  [status |-> 400, ctype |-> "html", key |-> "none", price |-> 0, error |-> ""]

\* mutant: model.predict is given the aligned frame, not the scaled one
predict_Unscaled(data, m, sc, order) ==
  IF data.kind = "malformed"
    THEN [body |-> data, response |-> BadRequestPage, steps |-> <<"parse">>,
          raised |-> "", house_df |-> NoFrame, house_data_scaled |-> <<>>,
          predict_arg |-> <<>>, predicted_log_price |-> 0, scaler |-> sc]
  ELSE
    LET pre == preprocess_single_house(data, sc, order)
        house_data_scaled ==
          IF pre.exc = ""
            THEN [i \in 1..Len(pre.house_df.columns) |->
                    1000 * pre.house_df.row[pre.house_df.columns[i]][2]]
            ELSE <<>>
        called == pre.exc = ""
        raised == IF called THEN PredictRaises(m, house_data_scaled) ELSE pre.exc
        predicted_log_price == IF raised = "" THEN Predict(m, house_data_scaled) ELSE 0
    IN  [body |-> data,
         response |-> IF raised = "" THEN PriceResponse(expm1(predicted_log_price))
                      ELSE ErrorResponse(raised),
         steps |-> <<"parse">> \o pre.steps
                     \o (IF called THEN <<"predict">> ELSE <<>>)
                     \o (IF raised = "" THEN <<"expm1", "respond_price">>
                         ELSE <<"respond_error">>),
         raised |-> raised,
         house_df |-> pre.house_df,
         house_data_scaled |-> house_data_scaled,
         predict_arg |-> IF called THEN house_data_scaled ELSE <<>>,
         predicted_log_price |-> predicted_log_price,
         scaler |-> pre.scaler]

\* the route handler predict(): the exchange it produces for one request
predict(data, m, sc, order) ==
  IF data.kind = "malformed"
    THEN [body |-> data, response |-> BadRequestPage, steps |-> <<"parse">>,
          raised |-> "", house_df |-> NoFrame, house_data_scaled |-> <<>>,
          predict_arg |-> <<>>, predicted_log_price |-> 0, scaler |-> sc]
  ELSE
    LET pre == preprocess_single_house(data, sc, order)
        house_data_scaled == pre.value
        called == pre.exc = ""
        raised == IF called THEN PredictRaises(m, house_data_scaled) ELSE pre.exc
        predicted_log_price == IF raised = "" THEN Predict(m, house_data_scaled) ELSE 0
    IN  [body |-> data,
         response |-> IF raised = "" THEN PriceResponse(expm1(predicted_log_price))
                      ELSE ErrorResponse(raised),
         steps |-> <<"parse">> \o pre.steps
                     \o (IF called THEN <<"predict">> ELSE <<>>)
                     \o (IF raised = "" THEN <<"expm1", "respond_price">>
                         ELSE <<"respond_error">>),
         raised |-> raised,
         house_df |-> pre.house_df,
         house_data_scaled |-> house_data_scaled,
         predict_arg |-> IF called THEN house_data_scaled ELSE <<>>,
         predicted_log_price |-> predicted_log_price,
         scaler |-> pre.scaler]

(* ----------------------------- the system ------------------------------ *)

Init ==
  /\ modelFile \in ModelFiles \cup {NoModelFile}
  /\ scalerFile \in ScalerFiles \cup {NoScalerFile}
  /\ proc = "init"
  /\ model = NoModelFile
  /\ scaler = NoScalerFile
  /\ loads = 0
  /\ log = {}
  /\ handled = 0
  /\ refused = 0

\* model, scaler = load_trained_model_and_scaler(), then app.run(port=5000)
Startup ==
  /\ proc = "init"
  /\ LET l == load_trained_model_and_scaler(modelFile, scalerFile)
     IN  /\ l.exc = ""
         /\ model' = l.model
         /\ scaler' = l.scaler
  /\ loads' = loads + 1
  /\ proc' = "serving"
  /\ UNCHANGED <<modelFile, scalerFile, log, handled, refused>>

\* the load raises while the module is imported: the process ends
StartupFails ==
  /\ proc = "init"
  /\ load_trained_model_and_scaler(modelFile, scalerFile).exc # ""
  /\ loads' = loads + 1
  /\ proc' = "crashed"
  /\ UNCHANGED <<modelFile, scalerFile, model, scaler, log, handled, refused>>

\* one POST /predict, from request to response
HandleRequest ==
  /\ proc = "serving"
  /\ handled < MaxRequests
  /\ \E data \in Bodies :
       \E order \in Perms(IF data.kind = "malformed" THEN {}
                          ELSE missing_features(data, scaler)) :
         LET e == predict(data, model, scaler, order)
         IN  /\ log' = log \cup {[body |-> e.body, response |-> e.response,
                                  steps |-> e.steps, raised |-> e.raised,
                                  house_df |-> e.house_df,
                                  house_data_scaled |-> e.house_data_scaled,
                                  predict_arg |-> e.predict_arg,
                                  predicted_log_price |-> e.predicted_log_price]}
             /\ scaler' = e.scaler
  /\ handled' = handled + 1
  /\ UNCHANGED <<modelFile, scalerFile, proc, model, loads, refused>>

\* a POST to a process that is not listening gets no HTTP response
ConnectionRefused ==
  /\ proc = "crashed"
  /\ refused < MaxRequests
  /\ refused' = refused + 1
  /\ UNCHANGED <<modelFile, scalerFile, proc, model, scaler, loads, log, handled>>

Next == Startup \/ StartupFails \/ HandleRequest \/ ConnectionRefused

Spec == Init /\ [][Next]_vars

(* ------------------------------ properties ----------------------------- *)

IsObject(e) == e.body.kind = "object"

\* the request's own value for a feature, if it has one
Has(e, F) == IsObject(e) /\ F \in DOMAIN e.body.fields

\* every expected feature the request carries has a numeric value
ValidFeatures(e) ==
  /\ e.body.kind # "malformed"
  /\ \A F \in FeatureNames : Has(e, F) => IsNum(e.body.fields[F])

Missing(e) == {F \in FeatureNames : ~Has(e, F)}

IsPrice(r) == r.status = 200 /\ r.ctype = "json" /\ r.key = "price"
IsError(r) == r.status = 400 /\ r.ctype = "json" /\ r.key = "error"

\* the request's fields the scaler knows
Known(e) == [F \in {G \in FeatureNames : Has(e, G)} |-> e.body.fields[F]]

\* C1: the record handed to the scaler has, for every expected feature, the
\* request's own value when the request has one and 0 when it has not; and a
\* request with valid values for the features it does carry, whatever subset
\* it lacks, is answered with a price (the loaded model taking as many inputs
\* as the scaler has features).
C1_ZeroFill ==
  \A e \in log :
    /\ e.body.kind # "malformed" =>
         /\ e.house_df # NoFrame
         /\ \A F \in Range(scaler.feature_names_in_) :
              e.house_df.row[F] = IF Has(e, F) THEN e.body.fields[F] ELSE Num(0)
    /\ (ValidFeatures(e) /\ model.input_dim = Len(scaler.feature_names_in_))
         => IsPrice(e.response)

C1_Witness ==
  \E e \in log : \E F \in FeatureNames :
    /\ IsObject(e) /\ Missing(e) = {F} /\ ValidFeatures(e)
    /\ e.house_df.row[F] = Num(0)
    /\ IsPrice(e.response)

\* C2: the record handed to scaler.transform has exactly the scaler's
\* feature names as columns, in the scaler's order; two requests that differ
\* only in fields the scaler does not know get the same scaled input and the
\* same response.
C2_ExtrasDropped ==
  /\ \A e \in log :
       e.house_df # NoFrame =>
         /\ e.house_df.columns = scaler.feature_names_in_
         /\ DOMAIN e.house_df.row = Range(scaler.feature_names_in_)
  /\ \A e1, e2 \in log :
       (IsObject(e1) /\ IsObject(e2) /\ Known(e1) = Known(e2)) =>
         /\ e1.house_df = e2.house_df
         /\ e1.house_data_scaled = e2.house_data_scaled
         /\ e1.response = e2.response

C2_Witness ==
  \E e1, e2 \in log :
    /\ IsObject(e1) /\ IsObject(e2) /\ Known(e1) = Known(e2)
    /\ "owner" \in DOMAIN e1.body.fields
    /\ "owner" \notin DOMAIN e2.body.fields
    /\ e1.house_df.columns = scaler.feature_names_in_
    /\ IsPrice(e1.response)

\* C3: an exception raised by preprocessing or by inference is answered with
\* status 400 and the body {"error": <the exception's message>}.
C3_ExceptionsCaught ==
  \A e \in log :
    e.raised # "" => (IsError(e.response) /\ e.response.error = e.raised)

C3_Witness ==
  /\ \E e \in log : e.raised # "" /\ "predict" \notin Range(e.steps)
  /\ \E e \in log : e.raised # "" /\ "predict" \in Range(e.steps)

\* C4: a request whose body is malformed JSON is answered with status 400
\* and a JSON body that has an "error" field.
C4_MalformedJsonError ==
  \A e \in log : e.body.kind = "malformed" => IsError(e.response)

\* C5: the response to a request, whatever its body, is either 200 with
\* {"price": <float>} or 400 with {"error": <string>}.
C5_TwoShapes ==
  \A e \in log : IsPrice(e.response) \/ IsError(e.response)

\* every expected feature is there with a number
WellFormed(e) == IsObject(e) /\ Missing(e) = {} /\ ValidFeatures(e)

\* C6 as stated: the price returned for a well-formed record is strictly
\* positive.
C6_PricePositive ==
  \A e \in log : (WellFormed(e) /\ IsPrice(e.response)) => e.response.price > 0

\* C6 amended: the price returned is strictly positive whenever the predicted
\* log-price is at least 0.005, and is zero or negative whenever the
\* predicted log-price is zero or negative.
C6_PriceSign ==
  \A e \in log :
    IsPrice(e.response) =>
      /\ e.predicted_log_price >= 5 => e.response.price > 0
      /\ e.predicted_log_price <= 0 => e.response.price <= 0

C6_Witness ==
  /\ \E e \in log : WellFormed(e) /\ IsPrice(e.response) /\ e.response.price > 0
  /\ \E e \in log : WellFormed(e) /\ IsPrice(e.response) /\ e.response.price <= 0

FileMissing == ~modelFile.present \/ ~scalerFile.present

\* C7 as stated: with the model file or the scaler file missing, a POST is
\* still answered, with status 400 and an error body.
C7_MissingFileAnswered400 ==
  FileMissing => (refused = 0 /\ \A e \in log : IsError(e.response))

\* C7 amended: with the model file or the scaler file missing the load at
\* startup raises and the process ends before it serves: no request is ever
\* handled and no response of any status is sent.
C7_MissingFileNoService ==
  FileMissing =>
    /\ proc \in {"init", "crashed"}
    /\ handled = 0
    /\ log = {}

C7_Witness == FileMissing /\ proc = "crashed" /\ refused > 0

\* C8: the model and the scaler are loaded once, before any request is
\* handled, and no request changes them or loads them again.
C8_LoadedOnceReadOnly ==
  [][/\ handled' > handled => (proc = "serving" /\ loads = 1)
     /\ proc = "serving" =>
          /\ model = modelFile /\ scaler = scalerFile
          /\ model' = model /\ scaler' = scaler /\ loads' = loads]_vars

C8_Witness ==
  /\ proc = "serving" /\ loads = 1 /\ model = modelFile /\ scaler = scalerFile
  /\ \E e \in log : IsPrice(e.response)
  /\ \E e \in log : IsError(e.response)

\* the steps of a request in the order the handler takes them
StepOrder == <<"parse", "align", "scale", "predict", "expm1", "respond_price", "respond_error">>

Position(step) == CHOOSE i \in DOMAIN StepOrder : StepOrder[i] = step

\* C9: the steps of a request run in the order parse, align, scale, predict,
\* inverse log transform, respond; model.predict runs only after
\* preprocessing succeeded, on the scaled aligned record; when alignment or
\* scaling fails, model.predict does not run and the error response follows.
C9_StepOrder ==
  \A e \in log :
    /\ \A i, j \in DOMAIN e.steps :
         i < j => Position(e.steps[i]) < Position(e.steps[j])
    /\ "predict" \in Range(e.steps) =>
         /\ SubSeq(e.steps, 1, 4) = <<"parse", "align", "scale", "predict">>
         /\ TransformRaises(scaler, e.house_df) = ""
         /\ e.predict_arg = Transform(scaler, e.house_df)
    /\ (e.body.kind # "malformed" /\ TransformRaises(scaler, e.house_df) # "") =>
         /\ "predict" \notin Range(e.steps)
         /\ e.steps[Len(e.steps)] = "respond_error"
         /\ IsError(e.response)

C9_Witness ==
  /\ \E e \in log : "predict" \in Range(e.steps) /\ IsPrice(e.response)
  /\ \E e \in log : e.body.kind # "malformed" /\ "predict" \notin Range(e.steps)

====
